---- MODULE Spec2Model ----
(***************************************************************************)
(* A model of the placed repository: the chunked tile archive              *)
(* (archive/src/archive_writer.rs, archive/src/archive_reader.rs) and the  *)
(* time-windowed texture update engine                                     *)
(* (player/src/texture_update_by_coords.rs).                               *)
(*                                                                         *)
(* The engine is generic over R: Read + Seek; every use of it in the       *)
(* repository hands it a std::io::Cursor over the encoded records, and so  *)
(* does this model.  Every read the engine makes is a whole number of      *)
(* records, so the stream is kept as a sequence of records and the reader  *)
(* position as a byte offset.                                              *)
(*                                                                         *)
(* The compute shader (shaders/texture_update_by_coords.compute.wgsl) is   *)
(* not in the source tree; its two passes are modelled from section 4.4    *)
(* of the specification (CalculateFinalTiles, UpdateTexture).              *)
(***************************************************************************)
EXTENDS Integers, Sequences, FiniteSets, TLC

\* ------------------------------------------------------------------ bounds
\* longest record stream handed to the engine
MaxRecords == 5
\* largest timestamp of a record; targets range over 0..MaxMs+1
MaxMs == 3
\* largest x coordinate of the canvas (the canvas is one row high)
MaxX == 1
\* number of palette entries the engine's streams use
NumColors == 5
\* max_compute_workgroups_per_dimension of the device
MaxWorkgroups == 2
\* max_buffer_size of the device, in bytes
MaxBufferSize == 1024
\* a duration hint (ms) that makes one slice as large as the device allows
LargeHint == 100
\* longest pixel data of an archive file render_up_to is run on
MaxPixels == 3
\* latest whole second of a pixel; render_up_to is asked for 0..MaxSeconds
MaxSeconds == 2
\* render_up_to calls on one PlacedArchive
MaxRenders == 3

\* --------------------------------------------------------- program constants
\* milliseconds in a second (render_up_to: pixel.ms_since_epoch / 1000)
MsPerSecond == 1000
NUM_OF_TILES_PER_WORKGROUP == 4
COPY_BUFFER_ALIGNMENT == 4
\* color_index of the padding records written by write_next_input_chunk
PADDING_COLOR_INDEX == 255

\* StoredTilePlacement::encoded_size(): x u16, y u16, color_index u8,
\* ms_since_epoch u32 under the fixed-width bincode configuration
encoded_size == 9

\* ------------------------------------------------------------------ helpers
Min(a, b) == IF a <= b THEN a ELSE b

RECURSIVE Gcd(_, _)
Gcd(a, b) == IF b = 0 THEN a ELSE Gcd(b, a % b)

\* num::integer::lcm
lcm(a, b) == (a * b) \div Gcd(a, b)

\* the largest element of a set of naturals, 0 for the empty set
\* (the bounds buffer is zeroed before every slice and raised by the shader)
MaxOf(S) == IF S = {} THEN 0 ELSE CHOOSE m \in S : \A n \in S : n <= m

\* ------------------------------------------------------------ engine: data
Coords == (0..MaxX) \X {0}

\* the transparent texel a fresh texture holds
Unset == <<0, 0, 0, 0>>

\* Meta.color_id_to_tuple of the engine's streams
color_id_to_tuple(i) == IF i = 0 THEN <<255, 0, 0, 255>>
                        ELSE IF i = 1 THEN <<0, 255, 0, 255>>
                        ELSE <<0, 0, i, 255>>

StoredTilePlacement == [x : 0..MaxX, y : {0}, color_index : 0..(NumColors - 1),
                        ms_since_epoch : 0..MaxMs]

\* the k-th record of a stream placed at x with timestamp ms: the colours of a
\* stream cycle through the palette, so that neighbouring records at one
\* coordinate are told apart on the canvas
StreamOf(xs, mss) ==
  [i \in 1..Len(xs) |-> [x |-> xs[i], y |-> 0, color_index |-> (i - 1) % NumColors,
                         ms_since_epoch |-> mss[i]]]

SortedMs(n) == {m \in [1..n -> 0..MaxMs] : \A i \in 1..(n - 1) : m[i] <= m[i + 1]}

\* how the records of a stream are laid out over the canvas
Layouts == {"same", "alternate", "pairs", "mirror"}

\* the x coordinates of a stream of n records under a layout
LayoutX(layout, n) ==
  [k \in 1..n |->
     IF layout = "same" THEN 0
     ELSE IF layout = "alternate" THEN (k - 1) % (MaxX + 1)
     ELSE IF layout = "pairs" THEN ((k - 1) \div 2) % (MaxX + 1)
     ELSE (n - k) % (MaxX + 1)]

\* the record streams the engine is run on: sorted by time (the engine's
\* documented precondition), up to MaxRecords long
Streams == UNION {{StreamOf(LayoutX(layout, n), mss) : layout \in Layouts, mss \in SortedMs(n)} :
                   n \in 0..MaxRecords}

Targets == 0..(MaxMs + 1)
Hints == {0, LargeHint}

\* --------------------------------------------------------- engine: state
VARIABLES
  data,            \* the records behind the engine's reader, in stream order
  device,          \* the wgpu limits the engine sizes its slices by
  reader_pos,      \* byte position of the reader (std::io::Cursor)
  texture,         \* the persistent canvas, one colour per coordinate
  pc,              \* "idle", or "update" inside the loop of update()
  up_to_ms,        \* argument of the update() call in progress (or the last)
  duration,        \* its duration hint, in milliseconds
  result,          \* what the last partial_update / update returned
  applied,         \* history: indices of data written to the texture so far
  reached_end,     \* history: update() has returned ReachedEndOfInput
  history,         \* history: "none", "first" call, "monotone" targets, or "mixed"
  call_start_pos   \* history: reader_pos when the update() in progress began

\* the engine's buffers and command queue, for the steps inside partial_update
VARIABLES
  step_pc,            \* where partial_update is: "pull" before it pulls a slice,
                      \* "submitted" while it waits in read_computed_bounds
  num_of_tiles_read,  \* the records write_next_input_chunk read for the slice
  input_buffer,       \* the records of the slice, with the padding records
  last_index_buffer,  \* last_index_for_tile: per coordinate a slice index
  bounds_buffer,      \* the bounds the shader raises
  staging_buffer,     \* the copy of the bounds the CPU maps and reads
  gpu_queue,          \* the commands submitted and not yet completed, in order
  progress            \* history: what the device has done of the slice

step_vars == <<step_pc, num_of_tiles_read, input_buffer, last_index_buffer, bounds_buffer,
               staging_buffer, gpu_queue, progress>>

engine_vars == <<data, device, reader_pos, texture, pc, up_to_ms, duration, result,
                 applied, reached_end, history, call_start_pos, step_vars>>

\* ---------------------------------------------------- archive: state
VARIABLES
  script,                    \* the caller's script
  color_tuple_to_id,         \* writer: palette, colour -> index
  tile_placements,           \* writer: buffered IntermediateTilePlacements
  writer_state,              \* "open", "finalized", or "panicked" in finalize
  mla,                       \* the container: chunk blobs, Meta, snapshots
  reader_state,              \* "closed", "open", or "panicked"
  meta,                      \* reader: the Meta decoded at open
  current_tile_chunk_id,     \* reader: id of the loaded chunk, NoChunk if none
  current_tile_chunk_data,   \* reader: Cursor over the loaded chunk's bytes
  read_tiles,                \* the DecodedTilePlacements next() has yielded
  last_next,                 \* "Some" / "None": what the last next() returned
  reader_use,                \* what the reader's caller does: "none" yet, "iterate",
                             \* "read", or "seek"
  read_bytes,                \* the bytes read() has returned since open or the last seek
  last_read,                 \* what the last read() returned
  last_seek,                 \* the last seek() call and what it returned
  num_seeks,                 \* seek() calls so far
  calls,                     \* next() and read calls since open or the last seek,
                             \* counted up to MaxCallsNearSeek + 1
  reads_at_end               \* read() calls that returned no bytes

archive_vars == <<script, color_tuple_to_id, tile_placements, writer_state, mla,
                  reader_state, meta, current_tile_chunk_id, current_tile_chunk_data,
                  read_tiles, last_next, reader_use, read_bytes, last_read, last_seek,
                  num_seeks, calls, reads_at_end>>

\* ------------------------------------------------- PlacedArchive: state
VARIABLES
  pixels,                \* the pixel data of the archive file, in file order
  last_rendered_canvas,  \* PlacedArchive.last_rendered_canvas: None, or the
                         \* canvas, seconds and offset of the last call
  rendered,              \* the image the last render_up_to call returned
  render_seconds,        \* the argument of the last render_up_to call
  render_resumed,        \* whether the last call began at the cached offset
  num_renders            \* render_up_to calls so far

render_vars == <<pixels, last_rendered_canvas, rendered, render_seconds, render_resumed,
                 num_renders>>

\* the writer and the container
writer_vars == <<script, color_tuple_to_id, tile_placements, writer_state, mla>>

\* the variables of the reader's caller that the writer leaves alone
caller_vars == <<reader_use, read_bytes, last_read, last_seek, num_seeks, calls,
                 reads_at_end>>

\* Meta as the engine's callers build it for a stream
total_tile_placements == Len(data)
last_tile_placed_at_ms_since_epoch ==
  IF Len(data) = 0 THEN 0 ELSE data[Len(data)].ms_since_epoch

\* ------------------------------------------------------- engine: Helpers
get_alignment_factor ==
  lcm(encoded_size * NUM_OF_TILES_PER_WORKGROUP, COPY_BUFFER_ALIGNMENT)

get_max_num_of_tiles_per_chunk(dev) ==
  dev.max_compute_workgroups_per_dimension * NUM_OF_TILES_PER_WORKGROUP

get_max_input_size(dev) ==
  LET absolute_max_in_bytes ==
        Min(dev.max_buffer_size, get_max_num_of_tiles_per_chunk(dev) * encoded_size)
  IN  absolute_max_in_bytes - (absolute_max_in_bytes % get_alignment_factor)

get_aligned_input_size(dev, min_size_in_bytes) ==
  LET min_in_bytes == min_size_in_bytes
        + (get_alignment_factor - (min_size_in_bytes % get_alignment_factor))
  IN  Min(min_in_bytes, get_max_input_size(dev))

\* f64 arithmetic on the small values of the model: the floor of the quotient
get_estimated_num_of_tiles_for_duration(d) ==
  (total_tile_placements * d) \div (last_tile_placed_at_ms_since_epoch + 1)

\* --------------------------------------------- engine: pulling one slice
PaddingRecord == [x |-> 0, y |-> 0, color_index |-> PADDING_COLOR_INDEX,
                  ms_since_epoch |-> 0]

\* bytes a read of up to n bytes takes from the Cursor at byte offset pos
CursorRead(pos, n) ==
  LET len == Len(data) * encoded_size
  IN  IF pos >= len THEN 0 ELSE Min(n, len - pos)

\* a padding loop that appends a whole group after a full one
PaddingCount_AlwaysPads(num_written) ==
  LET group == NUM_OF_TILES_PER_WORKGROUP * encoded_size
  IN  (group - (num_written % group)) \div encoded_size

\* number of padding records appended after num_written bytes
PaddingCount(num_written) ==
  LET group == NUM_OF_TILES_PER_WORKGROUP * encoded_size
  IN  ((group - (num_written % group)) % group) \div encoded_size

\* write_next_input_chunk: the bytes copied from the reader and the contents of
\* the input buffer (the records read, then the padding records)
write_next_input_chunk(pos, d) ==
  LET estimated_num_of_tiles == get_estimated_num_of_tiles_for_duration(d)
      copy_size == get_aligned_input_size(device, estimated_num_of_tiles * encoded_size)
      num_written == CursorRead(pos, copy_size)
      first == pos \div encoded_size
      num == num_written \div encoded_size
  IN  [bytes_written |-> num_written,
       copy_size |-> copy_size,
       input |-> [i \in 1..(num + PaddingCount(num_written)) |->
                    IF i <= num THEN data[first + i] ELSE PaddingRecord]]

\* ------------------------------------- engine: the two passes of the shader
NoIndex == -1

\* a record the resolution pass takes: not padding, and not in the future
Qualifies(rec, target) ==
  rec.color_index # PADDING_COLOR_INDEX /\ rec.ms_since_epoch <= target

\* the smallest element of a non-empty set of naturals
MinOf(S) == CHOOSE m \in S : \A n \in S : m <= n

\* a pass 1 that keeps, per coordinate, the first qualifying record
calculate_final_tiles_FirstWins(input, target) ==
  LET real == {i \in 1..Len(input) : input[i].color_index # PADDING_COLOR_INDEX}
      used == {i \in 1..Len(input) : Qualifies(input[i], target)}
  IN  [last_index_for_tile |->
         [c \in Coords |->
            LET at == {i \in used : <<input[i].x, input[i].y>> = c}
            IN  IF at = {} THEN NoIndex ELSE MinOf(at) - 1],
       max_ms_since_epoch_seen |-> MaxOf({input[i].ms_since_epoch : i \in real}),
       max_ms_since_epoch_used |-> MaxOf({input[i].ms_since_epoch : i \in used}),
       max_index_in_chunk_used |-> MaxOf({i - 1 : i \in used})]

\* pass 1: per coordinate the index (0-based) of the last qualifying record,
\* and the bounds, which start at 0 (partial_update zeroes the bounds buffer)
calculate_final_tiles(input, target) ==
  LET real == {i \in 1..Len(input) : input[i].color_index # PADDING_COLOR_INDEX}
      used == {i \in 1..Len(input) : Qualifies(input[i], target)}
  IN  [last_index_for_tile |->
         [c \in Coords |->
            LET at == {i \in used : <<input[i].x, input[i].y>> = c}
            IN  IF at = {} THEN NoIndex ELSE MaxOf(at) - 1],
       max_ms_since_epoch_seen |-> MaxOf({input[i].ms_since_epoch : i \in real}),
       max_ms_since_epoch_used |-> MaxOf({input[i].ms_since_epoch : i \in used}),
       max_index_in_chunk_used |-> MaxOf({i - 1 : i \in used})]

\* a pass 2 that redraws the whole canvas from the scratch map
update_texture_Redraws(tex, input, last_index_for_tile) ==
  [c \in Coords |->
     IF last_index_for_tile[c] = NoIndex THEN Unset
     ELSE color_id_to_tuple(input[last_index_for_tile[c] + 1].color_index)]

\* pass 2: every coordinate present in the scratch map takes the colour of its
\* record; every other coordinate is left alone
update_texture(tex, input, last_index_for_tile) ==
  [c \in Coords |->
     IF last_index_for_tile[c] = NoIndex THEN tex[c]
     ELSE color_id_to_tuple(input[last_index_for_tile[c] + 1].color_index)]

\* ------------------------------------------------ engine: partial_update
\* partial_update's test for the end of the input
ReachedEnd(bytes_written) == bytes_written = 0

\* whether the reader is moved back after a slice
NeedsRewind_Always(max_index_in_chunk_used, num_of_tiles) == TRUE
NeedsRewind(max_index_in_chunk_used, num_of_tiles) ==
  max_index_in_chunk_used # num_of_tiles - 1

\* the (negative) offset of the SeekFrom::Current after a slice
RewindOffset(max_index_in_chunk_used, num_of_tiles) ==
  -((num_of_tiles - max_index_in_chunk_used) * encoded_size)

\* did_update_up_to_requested_ms
DidUpdateUpTo(max_ms_since_epoch_seen, target) == max_ms_since_epoch_seen >= target

\* one bounded pull and resolve, from reader position pos and texture tex
partial_update(pos, tex, target, d) ==
  LET chunk == write_next_input_chunk(pos, d)
      bytes_written == chunk.bytes_written
      num_of_tiles == bytes_written \div encoded_size
      bounds == calculate_final_tiles(chunk.input, target)
      after_read == pos + bytes_written
      first == pos \div encoded_size
  IN  IF ReachedEnd(bytes_written)
      THEN [kind |-> "ReachedEndOfInput", pos |-> after_read, texture |-> tex,
            max_ms_since_epoch_used |-> 0, did_update_up_to_requested_ms |-> FALSE,
            used |-> {}]
      ELSE [kind |-> "UpdatedUpToMs",
            pos |-> IF NeedsRewind(bounds.max_index_in_chunk_used, num_of_tiles)
                    THEN after_read
                         + RewindOffset(bounds.max_index_in_chunk_used, num_of_tiles)
                    ELSE after_read,
            texture |-> update_texture(tex, chunk.input, bounds.last_index_for_tile),
            max_ms_since_epoch_used |-> bounds.max_ms_since_epoch_used,
            did_update_up_to_requested_ms |->
              DidUpdateUpTo(bounds.max_ms_since_epoch_seen, target),
            used |-> {first + i : i \in {j \in 1..num_of_tiles :
                                          Qualifies(chunk.input[j], target)}}]

\* what update() hands back for a partial_update result
Outcome(r) == [kind |-> r.kind,
               max_ms_since_epoch_used |-> r.max_ms_since_epoch_used,
               did_update_up_to_requested_ms |-> r.did_update_up_to_requested_ms]

NoResult == [kind |-> "None", max_ms_since_epoch_used |-> 0,
             did_update_up_to_requested_ms |-> FALSE]

\* the bounds buffer as partial_update writes it before a slice
ZeroBounds == [max_ms_since_epoch_seen |-> 0, max_ms_since_epoch_used |-> 0,
               max_index_in_chunk_used |-> 0]

\* history of a slice: the records pass 1 has handled, the coordinates pass 2
\* has handled, whether the scratch map was cleared, whether the bounds were
\* copied to the staging buffer, and whether the CPU has read them back
SlicePending == [pass1 |-> {}, pass2 |-> {}, cleared |-> FALSE, copied |-> FALSE,
                 read_back |-> FALSE]
NothingPending == [SlicePending EXCEPT !.read_back = TRUE]

\* ------------------------------------------------------- engine: actions
Devices == [max_compute_workgroups_per_dimension : {MaxWorkgroups},
            max_buffer_size : {MaxBufferSize}]

EngineInitOver(streams) ==
  /\ data \in streams
  /\ device \in Devices
  /\ reader_pos = 0
  /\ texture = [c \in Coords |-> Unset]
  /\ pc = "idle"
  /\ up_to_ms = 0
  /\ duration = 0
  /\ result = NoResult
  /\ applied = {}
  /\ reached_end = FALSE
  /\ history = "none"
  /\ call_start_pos = 0
  /\ step_pc = "pull"
  /\ num_of_tiles_read = 0
  /\ input_buffer = <<>>
  /\ last_index_buffer = [c \in Coords |-> NoIndex]
  /\ bounds_buffer = ZeroBounds
  /\ staging_buffer = ZeroBounds
  /\ gpu_queue = <<>>
  /\ progress = NothingPending

\* history: how the targets of the update() calls so far are ordered
NextHistory(t) == IF history = "none" THEN "first"
                  ELSE IF history # "mixed" /\ up_to_ms <= t THEN "monotone"
                  ELSE "mixed"

StartUpdate_Restarts(t, d) ==
  /\ pc = "idle"
  /\ pc' = "update"
  /\ up_to_ms' = t
  /\ duration' = d
  /\ history' = NextHistory(t)
  /\ reader_pos' = IF t < up_to_ms THEN 0 ELSE reader_pos
  /\ call_start_pos' = reader_pos'
  /\ UNCHANGED <<data, device, texture, result, applied, reached_end, step_vars,
                 archive_vars, render_vars>>

\* a caller invokes update(up_to_ms, duration)
StartUpdate(t, d) ==
  /\ pc = "idle"
  /\ pc' = "update"
  /\ up_to_ms' = t
  /\ duration' = d
  /\ history' = NextHistory(t)
  /\ call_start_pos' = reader_pos
  /\ UNCHANGED <<data, device, reader_pos, texture, result, applied, reached_end,
                 step_vars, archive_vars, render_vars>>

\* one turn of the loop of update(): a partial_update, and the return from
\* update() when it reached the end of input or the requested time
PartialUpdate ==
  /\ pc = "update"
  /\ LET r == partial_update(reader_pos, texture, up_to_ms, duration)
     IN  /\ reader_pos' = r.pos
         /\ texture' = r.texture
         /\ result' = Outcome(r)
         /\ applied' = applied \cup r.used
         /\ reached_end' = (reached_end \/ r.kind = "ReachedEndOfInput")
         /\ pc' = IF r.kind = "ReachedEndOfInput" \/ r.did_update_up_to_requested_ms
                  THEN "idle" ELSE "update"
  /\ UNCHANGED <<data, device, up_to_ms, duration, history, call_start_pos, step_vars,
                 archive_vars, render_vars>>

EngineNext ==
  \/ \E t \in Targets, d \in Hints : StartUpdate(t, d)
  \/ PartialUpdate

\* ------------------------------------- engine: the steps of partial_update
\* the commands partial_update records in its encoder after the slice is
\* written to the input buffer, in the order it records them
\* (the device completes the commands of one submission in that order; the
\* invocations of one dispatch run in any order)
Commands_ApplyFirst ==
  <<"update_texture", "calculate_final_tiles", "clear_last_index_for_tile", "copy_bounds">>
Commands ==
  <<"calculate_final_tiles", "update_texture", "clear_last_index_for_tile", "copy_bounds">>

\* the streams whose steps are followed command by command
StepStreams ==
  UNION {{StreamOf(LayoutX("alternate", n), mss) : mss \in SortedMs(n)} : n \in 0..MaxRecords}

\* the first update() call of a caller
FirstUpdate(t, d) == history = "none" /\ StartUpdate(t, d)

\* the command the device runs next
Running(command) == gpu_queue # <<>> /\ Head(gpu_queue) = command

\* partial_update up to queue.submit, given the slice write_next_input_chunk
\* pulled: the bounds are zeroed, and either the call returns
\* ReachedEndOfInput or the commands over the slice are submitted
PullOutcome(chunk) ==
  /\ bounds_buffer' = ZeroBounds
  /\ reader_pos' = reader_pos + chunk.bytes_written
  /\ IF ReachedEnd(chunk.bytes_written)
     THEN /\ result' = [kind |-> "ReachedEndOfInput", max_ms_since_epoch_used |-> 0,
                        did_update_up_to_requested_ms |-> FALSE]
          /\ reached_end' = TRUE
          /\ pc' = "idle"
          /\ UNCHANGED <<step_pc, num_of_tiles_read, input_buffer, gpu_queue, progress>>
     ELSE /\ num_of_tiles_read' = chunk.bytes_written \div encoded_size
          /\ input_buffer' = chunk.input
          /\ gpu_queue' = Commands
          /\ progress' = SlicePending
          /\ step_pc' = "submitted"
          /\ UNCHANGED <<result, reached_end, pc>>

PullSlice ==
  /\ pc = "update" /\ step_pc = "pull"
  /\ PullOutcome(write_next_input_chunk(reader_pos, duration))
  /\ UNCHANGED <<data, device, texture, up_to_ms, duration, applied, history,
                 call_start_pos, last_index_buffer, staging_buffer, archive_vars, render_vars>>

\* what is left of the queue once the running command has handled `handled`
\* of its `all` invocations
AfterInvocation(handled, all) == IF handled = all THEN Tail(gpu_queue) ELSE gpu_queue

\* pass 1, the invocation for the i-th record of the input buffer: atomic
\* maxima into the scratch map and the bounds
GpuCalculateFinalTiles(i) ==
  /\ Running("calculate_final_tiles")
  /\ i \in (1..Len(input_buffer)) \ progress.pass1
  /\ bounds_buffer' =
       [max_ms_since_epoch_seen |->
          IF input_buffer[i].color_index # PADDING_COLOR_INDEX
          THEN MaxOf({bounds_buffer.max_ms_since_epoch_seen, input_buffer[i].ms_since_epoch})
          ELSE bounds_buffer.max_ms_since_epoch_seen,
        max_ms_since_epoch_used |->
          IF Qualifies(input_buffer[i], up_to_ms)
          THEN MaxOf({bounds_buffer.max_ms_since_epoch_used, input_buffer[i].ms_since_epoch})
          ELSE bounds_buffer.max_ms_since_epoch_used,
        max_index_in_chunk_used |->
          IF Qualifies(input_buffer[i], up_to_ms)
          THEN MaxOf({bounds_buffer.max_index_in_chunk_used, i - 1})
          ELSE bounds_buffer.max_index_in_chunk_used]
  /\ last_index_buffer' =
       IF Qualifies(input_buffer[i], up_to_ms)
       THEN [last_index_buffer EXCEPT ![<<input_buffer[i].x, input_buffer[i].y>>] =
               IF @ < i - 1 THEN i - 1 ELSE @]
       ELSE last_index_buffer
  /\ progress' = [progress EXCEPT !.pass1 = @ \cup {i}]
  /\ gpu_queue' = AfterInvocation(progress.pass1 \cup {i}, 1..Len(input_buffer))
  /\ UNCHANGED <<data, device, reader_pos, texture, pc, up_to_ms, duration, result, applied,
                 reached_end, history, call_start_pos, step_pc, num_of_tiles_read,
                 input_buffer, staging_buffer, archive_vars, render_vars>>

\* pass 2, the invocation for coordinate c: the colour of the record the
\* scratch map names, if it names one
GpuUpdateTexture(c) ==
  /\ Running("update_texture")
  /\ c \in Coords \ progress.pass2
  /\ texture' = IF last_index_buffer[c] = NoIndex THEN texture
                ELSE [texture EXCEPT ![c] =
                        color_id_to_tuple(input_buffer[last_index_buffer[c] + 1].color_index)]
  /\ progress' = [progress EXCEPT !.pass2 = @ \cup {c}]
  /\ gpu_queue' = AfterInvocation(progress.pass2 \cup {c}, Coords)
  /\ UNCHANGED <<data, device, reader_pos, pc, up_to_ms, duration, result, applied,
                 reached_end, history, call_start_pos, step_pc, num_of_tiles_read,
                 input_buffer, last_index_buffer, bounds_buffer, staging_buffer,
                 archive_vars, render_vars>>

\* copy_buffer_to_buffer(zeros_buffer, last_index_for_tile)
GpuClear ==
  /\ Running("clear_last_index_for_tile")
  /\ last_index_buffer' = [c \in Coords |-> NoIndex]
  /\ progress' = [progress EXCEPT !.cleared = TRUE]
  /\ gpu_queue' = Tail(gpu_queue)
  /\ UNCHANGED <<data, device, reader_pos, texture, pc, up_to_ms, duration, result, applied,
                 reached_end, history, call_start_pos, step_pc, num_of_tiles_read,
                 input_buffer, bounds_buffer, staging_buffer, archive_vars, render_vars>>

\* copy_buffer_to_buffer(bounds_buffer, staging_buffer)
GpuCopyBounds ==
  /\ Running("copy_bounds")
  /\ staging_buffer' = bounds_buffer
  /\ progress' = [progress EXCEPT !.copied = TRUE]
  /\ gpu_queue' = Tail(gpu_queue)
  /\ UNCHANGED <<data, device, reader_pos, texture, pc, up_to_ms, duration, result, applied,
                 reached_end, history, call_start_pos, step_pc, num_of_tiles_read,
                 input_buffer, last_index_buffer, bounds_buffer, archive_vars, render_vars>>

\* the records of the stream that the slice in the input buffer applied
AppliedBySlice ==
  {(reader_pos \div encoded_size) - num_of_tiles_read + j :
     j \in {k \in 1..num_of_tiles_read : Qualifies(input_buffer[k], up_to_ms)}}

\* read_computed_bounds, which waits in device.poll(Maintain::Wait) until the
\* device has completed what was submitted, then the rewind and the return
\* of partial_update
ReadBounds ==
  /\ pc = "update" /\ step_pc = "submitted"
  /\ gpu_queue = <<>>
  /\ reader_pos' =
       IF NeedsRewind(staging_buffer.max_index_in_chunk_used, num_of_tiles_read)
       THEN reader_pos + RewindOffset(staging_buffer.max_index_in_chunk_used, num_of_tiles_read)
       ELSE reader_pos
  /\ result' = [kind |-> "UpdatedUpToMs",
                max_ms_since_epoch_used |-> staging_buffer.max_ms_since_epoch_used,
                did_update_up_to_requested_ms |->
                  DidUpdateUpTo(staging_buffer.max_ms_since_epoch_seen, up_to_ms)]
  /\ pc' = IF DidUpdateUpTo(staging_buffer.max_ms_since_epoch_seen, up_to_ms)
           THEN "idle" ELSE "update"
  /\ step_pc' = "pull"
  /\ applied' = applied \cup AppliedBySlice
  /\ progress' = [progress EXCEPT !.read_back = TRUE]
  /\ UNCHANGED <<data, device, texture, up_to_ms, duration, reached_end, history,
                 call_start_pos, num_of_tiles_read, input_buffer, last_index_buffer,
                 bounds_buffer, staging_buffer, gpu_queue, archive_vars, render_vars>>

StepNext ==
  \/ \E t \in Targets, d \in Hints : FirstUpdate(t, d)
  \/ PullSlice
  \/ \E i \in 1..get_max_num_of_tiles_per_chunk(device) : GpuCalculateFinalTiles(i)
  \/ \E c \in Coords : GpuUpdateTexture(c)
  \/ GpuClear
  \/ GpuCopyBounds
  \/ ReadBounds

\* ===================================================== the tile archive
\* ------------------------------------------------------ archive: bounds
\* most placements a caller of few colours adds before finalize
MaxTiles == 129
\* most distinct colours a caller adds (one placement each)
MaxColors == 257
\* size in bytes of the buffer a caller hands to read()
ReadSize == 6
\* most seek() calls a caller makes
MaxSeeks == 2
\* a caller that seeks does so after at most this many next() or read calls,
\* and makes at most this many such calls after its last seek
MaxCallsNearSeek == 1
\* most read() calls a caller makes that return no bytes
MaxReadsAtEnd == 2
\* the millisecond, within its era, at which the callers' placements start
Epoch == 1000

\* --------------------------------------------------- program constants
NUM_CHUNKS == 64
\* u8: the width of a palette index
U8Modulus == 256

\* ------------------------------------------------ archive: the callers
\* PlacedArchiveReader::current_tile_chunk_id when no chunk is loaded
NoChunk == -1

\* A caller adds placements one at a time and then calls finalize.  What it
\* adds is fixed by its script: how the times of successive placements are
\* ordered, how many distinct colours it cycles through, and how many
\* placements it adds.  lost_chunk names a chunk entry the container loses
\* after it was written (NoChunk: the container stays whole).  damage names
\* what else happens to the container before it is read: "truncated" (the blob
\* of the last chunk loses its final byte), "unknown_color" (the last record
\* names a palette index the Meta does not hold), or "none".
\* A placement time (NaiveDateTime) is written [era, ms]: ms milliseconds into
\* the era-th span of 2^32 milliseconds, so that times further apart than a
\* u32 holds can be told apart.  A caller of pattern "far" adds the second
\* half of its placements one era (2^32 ms) after the first half.
TimePatterns == {"ascending", "descending", "same", "pairs"}
TileCounts == {0, 1, NUM_CHUNKS - 1, NUM_CHUNKS}
LargeTileCounts == {NUM_CHUNKS + 2, MaxTiles}
LostChunks == {0, 1}
Scripts ==
  [times : TimePatterns, colors : {1, 3}, count : TileCounts, lost_chunk : {NoChunk},
   damage : {"none"}]
  \cup [times : {"ascending"}, colors : {1, 3}, count : LargeTileCounts,
        lost_chunk : {NoChunk}, damage : {"none"}]
  \cup {[times |-> "ascending", colors |-> MaxColors, count |-> MaxColors,
         lost_chunk |-> NoChunk, damage |-> "none"]}
  \cup {[times |-> "far", colors |-> 1, count |-> NUM_CHUNKS, lost_chunk |-> NoChunk,
         damage |-> "none"]}
  \cup {[times |-> "ascending", colors |-> 3, count |-> MaxTiles, lost_chunk |-> id,
         damage |-> "none"] : id \in LostChunks}
  \cup {[times |-> "ascending", colors |-> 3, count |-> NUM_CHUNKS + 2,
         lost_chunk |-> NoChunk, damage |-> d] : d \in {"truncated", "unknown_color"}}

\* the i-th placement (from 1) a caller with script sc adds
ScriptTime(sc, i) ==
  [era |-> IF sc.times = "far" /\ 2 * i > sc.count THEN 1 ELSE 0,
   ms |-> IF sc.times = "ascending" THEN Epoch + (i - 1)
          ELSE IF sc.times = "far" THEN Epoch + ((i - 1) % (sc.count \div 2))
          ELSE IF sc.times = "descending" THEN Epoch + (sc.count - i)
          ELSE IF sc.times = "pairs" THEN Epoch + ((i - 1) \div 2)
          ELSE Epoch]

\* the c-th colour (from 0) of the callers: distinct RGBA tuples of bytes
ColorNumber(c) == <<(c * 85) % U8Modulus, c \div U8Modulus, 255 - (c % U8Modulus), 255>>

ScriptColor(sc, i) == ColorNumber((i - 1) % sc.colors)

ScriptTile(sc, i) == [x |-> (i - 1) % 2, y |-> ((i - 1) \div 2) % 2,
                      color |-> ScriptColor(sc, i), placed_at |-> ScriptTime(sc, i)]

\* ------------------------------------------------- archive: record codec
\* little-endian fixed-width integers (bincode legacy configuration)
EncodeLE(v, nbytes) == [k \in 1..nbytes |-> (v \div (U8Modulus ^ (k - 1))) % U8Modulus]

RECURSIVE DecodeLE(_)
DecodeLE(bytes) == IF bytes = <<>> THEN 0
                   ELSE bytes[1] + U8Modulus * DecodeLE(Tail(bytes))

\* StoredTilePlacement::write_into / bincode::encode_into_std_write
Encode(rec) == EncodeLE(rec.x, 2) \o EncodeLE(rec.y, 2) \o EncodeLE(rec.color_index, 1)
               \o EncodeLE(rec.ms_since_epoch, 4)

\* the records of a chunk, written one after another
EncodeAll(recs) ==
  [k \in 1..(Len(recs) * encoded_size) |->
     Encode(recs[((k - 1) \div encoded_size) + 1])[((k - 1) % encoded_size) + 1]]

\* --------------------------------------------------- archive: the writer
\* colours are ordered as BTreeMap orders [u8; 4] keys
ColorLess(a, b) ==
  \E k \in 1..4 : a[k] < b[k] /\ \A j \in 1..(k - 1) : a[j] = b[j]

\* add_tile's palette lookup: the index of a known colour, else the map's
\* length as u8
ColorIndexFor(map, color) ==
  IF color \in DOMAIN map THEN map[color] ELSE Cardinality(DOMAIN map) % U8Modulus

\* NaiveDateTime's order
Before(a, b) == a.era < b.era \/ (a.era = b.era /\ a.ms < b.ms)

\* NaiveDateTime::signed_duration_since(..).num_milliseconds(): the i64
\* difference era * 2^32 + ms of two times
signed_duration_since(a, b) == [era |-> a.era - b.era, ms |-> a.ms - b.ms]

\* IntermediateTilePlacement's Ord: by placed_at alone.  The stable sort puts
\* each placement after those with a smaller time and those with the same
\* time that came before it.
StableSort(seq) ==
  LET ranked == {<<1 + Cardinality({j \in 1..Len(seq) :
                       \/ Before(seq[j].placed_at, seq[i].placed_at)
                       \/ seq[j].placed_at = seq[i].placed_at /\ j < i}), i>> :
                 i \in 1..Len(seq)}
  IN  [p \in 1..Len(seq) |-> seq[(CHOOSE r \in ranked : r[1] = p)[2]]]

Reverse(seq) == [i \in 1..Len(seq) |-> seq[Len(seq) + 1 - i]]

\* sort_unstable: sorted by placed_at; the order of placements with equal
\* times is unspecified (here: as added, or reversed)
sort_unstable(seq) == {StableSort(seq), StableSort(Reverse(seq))}

\* num_milliseconds() as u32: the low 32 bits of the difference (the callers'
\* times keep the ms part of a difference within 0 .. 2^31 - 1)
as_u32(duration_ms) == duration_ms.ms

\* slice::chunks(n) for n > 0: consecutive groups of n, the last one shorter
chunks(seq, n) ==
  [g \in 1..((Len(seq) + n - 1) \div n) |->
     SubSeq(seq, (g - 1) * n + 1, Min(g * n, Len(seq)))]

\* the StoredTilePlacement finalize writes for a placement
StoredOf(tile, first_tile_placed_at) ==
  [x |-> tile.x, y |-> tile.y, color_index |-> tile.color_index,
   ms_since_epoch |-> as_u32(signed_duration_since(tile.placed_at, first_tile_placed_at))]

\* BTreeMap::from_iter over (index, colour) in colour order: the last colour
\* inserted for an index stays
InvertPalette(map) ==
  [id \in {map[c] : c \in DOMAIN map} |->
     CHOOSE c \in DOMAIN map :
       /\ map[c] = id
       /\ \A o \in DOMAIN map : map[o] = id => (o = c \/ ColorLess(o, c))]

NoMeta == [chunk_descs |-> <<>>, color_id_to_tuple |-> <<>>]
EmptyMla == [tiles |-> <<>>, meta |-> NoMeta, has_meta |-> FALSE, snapshots |-> 0,
             finalized |-> FALSE, damaged |-> FALSE]

\* the container, with its Meta entry, that finalize leaves for the sorted
\* placements.  The Meta holds the fields finalize gives it: chunk_descs,
\* color_id_to_tuple and a last_pixel_placed_at_seconds_since_epoch of 0
\* (canvas_size_changes, one fixed entry, is left out).
FinalizedArchive(sorted) ==
  LET first_tile_placed_at == sorted[1].placed_at
      num_of_tiles_in_chunk == Len(sorted) \div NUM_CHUNKS
      groups == chunks(sorted, num_of_tiles_in_chunk)
      stored(g) == [k \in 1..Len(groups[g]) |-> StoredOf(groups[g][k], first_tile_placed_at)]
  IN  [tiles |-> [id \in 0..(Len(groups) - 1) |-> EncodeAll(stored(id + 1))],
       has_meta |-> TRUE,
       snapshots |-> Len(groups),
       finalized |-> TRUE,
       damaged |-> FALSE,
       meta |-> [chunk_descs |->
                   [g \in 1..Len(groups) |->
                      [id |-> g - 1,
                       up_to_ms_since_epoch |->
                         as_u32(signed_duration_since(groups[g][Len(groups[g])].placed_at,
                                                      first_tile_placed_at)),
                       num_tiles |-> Len(groups[g])]],
                 last_pixel_placed_at_seconds_since_epoch |-> 0,
                 color_id_to_tuple |-> InvertPalette(color_tuple_to_id)]]

\* whether finalize panics: first().unwrap() on no placements, or chunks(0)
FinalizePanics == Len(tile_placements) = 0 \/ Len(tile_placements) \div NUM_CHUNKS = 0

\* --------------------------------------------------- archive: the reader
NoData == [some |-> FALSE, buf |-> <<>>, position |-> 0]

\* the reader's cursor state as a value
ReaderCursor == [id |-> current_tile_chunk_id, data |-> current_tile_chunk_data]

\* load_chunk_by_id: the new current_tile_chunk_data, or an error
load_chunk_by_id(tile_chunk_id) ==
  IF tile_chunk_id \in DOMAIN mla.tiles
  THEN [ok |-> TRUE, data |-> [some |-> TRUE, buf |-> mla.tiles[tile_chunk_id],
                               position |-> 0]]
  ELSE [ok |-> FALSE, data |-> NoData]

\* a get_next_chunk_data that passes over a chunk
get_next_chunk_data_SkipsOne(rc) ==
  LET tile_chunk_id == IF rc.id = NoChunk THEN 0 ELSE rc.id + 2
      loaded == load_chunk_by_id(tile_chunk_id)
  IN  IF tile_chunk_id >= Len(meta.chunk_descs)
      THEN [ok |-> FALSE, err |-> "OutOfChunks", rc |-> rc]
      ELSE IF loaded.ok
      THEN [ok |-> TRUE, err |-> "none", rc |-> [id |-> tile_chunk_id, data |-> loaded.data]]
      ELSE [ok |-> FALSE, err |-> "MissingChunkFile", rc |-> rc]

\* get_next_chunk_data: the cursor state after, or the NextTileChunkError
get_next_chunk_data(rc) ==
  LET tile_chunk_id == IF rc.id = NoChunk THEN 0 ELSE rc.id + 1
      loaded == load_chunk_by_id(tile_chunk_id)
  IN  IF tile_chunk_id >= Len(meta.chunk_descs)
      THEN [ok |-> FALSE, err |-> "OutOfChunks", rc |-> rc]
      ELSE IF loaded.ok
      THEN [ok |-> TRUE, err |-> "none", rc |-> [id |-> tile_chunk_id, data |-> loaded.data]]
      ELSE [ok |-> FALSE, err |-> "MissingChunkFile", rc |-> rc]

\* Cursor::read on a chunk: the bytes and the cursor after
CursorReadChunk(d, n) ==
  LET k == IF d.position >= Len(d.buf) THEN 0 ELSE Min(n, Len(d.buf) - d.position)
  IN  [bytes |-> SubSeq(d.buf, d.position + 1, d.position + k),
       data |-> [d EXCEPT !.position = d.position + k]]

\* Read::read with a buffer of n bytes: the bytes returned (none at the end
\* of the stream) and the reader's cursor state after.  read returns Ok in
\* every case; chunk_error is the error of get_next_chunk_data it dropped.
RECURSIVE read(_, _)

\* read, when the current chunk has bytes left: what Cursor::read gave
ReadFromChunk(rc, got) ==
  [bytes |-> got.bytes, chunk_error |-> "none", rc |-> [rc EXCEPT !.data = got.data]]

\* read, when it asked for the next chunk: read from it, or Ok(0)
ReadFromNext(rc, nxt, n) ==
  IF nxt.ok THEN read(nxt.rc, n)
  ELSE [bytes |-> <<>>, chunk_error |-> nxt.err, rc |-> rc]

read(rc, n) ==
  IF rc.data.some /\ rc.data.position # Len(rc.data.buf)
  THEN ReadFromChunk(rc, CursorReadChunk(rc.data, n))
  ELSE ReadFromNext(rc, get_next_chunk_data(rc), n)

\* up to m consecutive calls of read with a buffer of ReadSize bytes, stopping
\* at the first that returns no bytes: the bytes they returned, whether the
\* last one returned none, and the error it dropped
RECURSIVE read_many(_, _)

ReadOnce(got) ==
  [bytes |-> got.bytes, ended |-> got.bytes = <<>>, chunk_error |-> got.chunk_error,
   rc |-> got.rc]

ReadManyJoin(first, second) ==
  [bytes |-> first.bytes \o second.bytes, ended |-> second.ended,
   chunk_error |-> second.chunk_error, rc |-> second.rc]

ReadManyAfter(first, m) ==
  IF first.ended THEN first ELSE ReadManyJoin(first, read_many(first.rc, m))

read_many(rc, m) ==
  IF m = 1 THEN ReadOnce(read(rc, ReadSize))
  ELSE ReadManyAfter(read_many(rc, m \div 2), m - (m \div 2))

\* Read::read_exact: n bytes, or an error when the stream ends before
RECURSIVE read_exact(_, _)

PrependBytes(bytes, rest) == [rest EXCEPT !.bytes = bytes \o rest.bytes]

\* read_exact, after one read for n bytes gave got
ReadExactAfter(got, n) ==
  IF got.bytes = <<>> THEN [ok |-> FALSE, bytes |-> <<>>, rc |-> got.rc]
  ELSE PrependBytes(got.bytes, read_exact(got.rc, n - Len(got.bytes)))

read_exact(rc, n) ==
  IF n = 0 THEN [ok |-> TRUE, bytes |-> <<>>, rc |-> rc]
  ELSE ReadExactAfter(read(rc, n), n)

\* the widths in bytes of StoredTilePlacement's fields x, y, color_index and
\* ms_since_epoch, in the order bincode writes them
FieldWidths == <<2, 2, 1, 4>>

\* the fields of the given widths read one after another, until one fails
RECURSIVE decode_fields(_, _)

PrependValue(v, rest) == [rest EXCEPT !.values = <<v>> \o rest.values]

DecodeFieldsAfter(field, widths) ==
  IF ~field.ok THEN [ok |-> FALSE, values |-> <<>>, rc |-> field.rc]
  ELSE PrependValue(DecodeLE(field.bytes), decode_fields(field.rc, widths))

decode_fields(rc, widths) ==
  IF widths = <<>> THEN [ok |-> TRUE, values |-> <<>>, rc |-> rc]
  ELSE DecodeFieldsAfter(read_exact(rc, Head(widths)), Tail(widths))

TileOfFields(f) ==
  IF ~f.ok THEN [ok |-> FALSE, rc |-> f.rc]
  ELSE [ok |-> TRUE, rc |-> f.rc,
        tile |-> [x |-> f.values[1], y |-> f.values[2], color_index |-> f.values[3],
                  ms_since_epoch |-> f.values[4]]]

\* bincode::decode_from_std_read of a StoredTilePlacement: its fields in order
decode_from_std_read(rc) == TileOfFields(decode_fields(rc, FieldWidths))

\* ----------------------------------------------- archive: reader seek
\* the number of records in the first n chunks of the Meta
RECURSIVE TilesBefore(_)
TilesBefore(n) == IF n = 0 THEN 0 ELSE TilesBefore(n - 1) + meta.chunk_descs[n].num_tiles

\* Read::read_to_end: read until read returns no bytes.  A read that returns
\* bytes returns at least one, so one more read than the chunks hold bytes
\* reaches the end.
read_to_end(rc) ==
  read_many(rc, 1 + TilesBefore(Len(meta.chunk_descs)) * encoded_size)

\* seek(Start): the loop over chunk_descs, from chunk id with current_tile_offset
\* records before it; the chunk id and offset it stops at
RECURSIVE ScanChunks(_, _, _)
ScanChunks(id, current_tile_offset, pos_in_tiles) ==
  IF id >= Len(meta.chunk_descs)
  THEN [id |-> id, offset |-> current_tile_offset]
  ELSE IF current_tile_offset + meta.chunk_descs[id + 1].num_tiles >= pos_in_tiles
  THEN [id |-> id, offset |-> current_tile_offset]
  ELSE ScanChunks(id + 1, current_tile_offset + meta.chunk_descs[id + 1].num_tiles,
                  pos_in_tiles)

\* a seek(Start) that keeps only the offset within the record
remaining_pos_WithinRecord(pos, offset) == pos % encoded_size

\* seek(Start)'s position within the chunk it loads, whose first record is
\* the offset-th of the archive
remaining_pos(pos, offset) ==
  (pos % encoded_size) + ((pos \div encoded_size) - offset) * encoded_size

\* a seek(Start) that drops the buffered chunk before it asks for the new one
SeekInto_DropsChunk(rc, pos, at, loaded) ==
  IF ~loaded.ok THEN [ok |-> FALSE, value |-> 0, rc |-> [id |-> at.id, data |-> NoData]]
  ELSE [ok |-> TRUE, value |-> pos,
        rc |-> [id |-> at.id,
                data |-> [loaded.data EXCEPT !.position = remaining_pos(pos, at.offset)]]]

\* seek(Start), once the loop stopped at chunk `at` and the chunk was asked for
SeekInto(rc, pos, at, loaded) ==
  IF ~loaded.ok THEN [ok |-> FALSE, value |-> 0, rc |-> rc]
  ELSE [ok |-> TRUE, value |-> pos,
        rc |-> [id |-> at.id,
                data |-> [loaded.data EXCEPT !.position = remaining_pos(pos, at.offset)]]]

SeekToChunk(rc, pos, at) == SeekInto(rc, pos, at, load_chunk_by_id(at.id))

\* seek(SeekFrom::Start(pos)).  A negative pos stands for the huge u64 that
\* the cast of a negative i64 gives: the loop passes every chunk.
seek_start(rc, pos) ==
  SeekToChunk(rc, pos, IF pos < 0 THEN [id |-> Len(meta.chunk_descs), offset |-> 0]
                       ELSE ScanChunks(0, 0, pos \div encoded_size))

\* the absolute offset seek(SeekFrom::Current(d)) asks seek(Start) for; the
\* reader must hold a chunk id
CurrentTarget(rc, d) ==
  LET current_byte_offset_within_chunk == IF rc.data.some THEN rc.data.position ELSE 0
      base_byte_offset == TilesBefore(rc.id) * encoded_size
  IN  base_byte_offset + current_byte_offset_within_chunk + d

\* the offsets and the deltas the callers seek to
SeekRecords == {0, 1, 2, Len(tile_placements) - 1, Len(tile_placements)}
SeekRemainders == {0, 1, encoded_size - 1}
StartTargets == {k * encoded_size + r : k \in SeekRecords, r \in SeekRemainders}
CurrentDeltas == {-2 * encoded_size, 0, encoded_size}

NoRead == [n |-> -1, chunk_error |-> "none"]
NoSeek == [op |-> "none", arg |-> 0, ok |-> FALSE, value |-> 0]

\* --------------------------------------------------- archive: actions
ArchiveInitOver(scripts) ==
  /\ script \in scripts
  /\ color_tuple_to_id = <<>>
  /\ tile_placements = <<>>
  /\ writer_state = "open"
  /\ mla = EmptyMla
  /\ reader_state = "closed"
  /\ meta = NoMeta
  /\ current_tile_chunk_id = NoChunk
  /\ current_tile_chunk_data = NoData
  /\ read_tiles = <<>>
  /\ last_next = "none"
  /\ reader_use = "none"
  /\ read_bytes = <<>>
  /\ last_read = NoRead
  /\ last_seek = NoSeek
  /\ num_seeks = 0
  /\ calls = 0
  /\ reads_at_end = 0

\* PlacedArchiveWriter::add_tile (&mut self: it asks nothing of the writer's
\* state)
add_tile(x, y, color, placed_at) ==
  /\ LET color_index == ColorIndexFor(color_tuple_to_id, color)
     IN  /\ color_tuple_to_id' =
               IF color \in DOMAIN color_tuple_to_id THEN color_tuple_to_id
               ELSE [c \in DOMAIN color_tuple_to_id \cup {color} |->
                       IF c = color THEN color_index ELSE color_tuple_to_id[c]]
         /\ tile_placements' = Append(tile_placements,
               [x |-> x, y |-> y, placed_at |-> placed_at, color_index |-> color_index])
  /\ UNCHANGED <<script, writer_state, mla, reader_state, meta, current_tile_chunk_id,
                 current_tile_chunk_data, read_tiles, last_next, caller_vars, engine_vars, render_vars>>

\* the caller adds the next placement of its script
AddTile ==
  /\ writer_state = "open"
  /\ Len(tile_placements) < script.count
  /\ LET t == ScriptTile(script, Len(tile_placements) + 1)
     IN  add_tile(t.x, t.y, t.color, t.placed_at)

\* the writer is done with and nothing was added to it since
WriterDone == writer_state = "finalized" /\ Len(tile_placements) = script.count

\* the caller adds one more placement after finalize has returned (finalize
\* takes &mut self and leaves the writer to its caller); such a caller does
\* not go on to read the container
AddTileLate ==
  /\ WriterDone
  /\ reader_state = "closed"
  /\ LET t == ScriptTile(script, Len(tile_placements) + 1)
     IN  add_tile(t.x, t.y, t.color, t.placed_at)

\* PlacedArchiveWriter::finalize
finalize ==
  /\ writer_state = "open"
  /\ Len(tile_placements) = script.count
  /\ IF FinalizePanics
     THEN /\ writer_state' = "panicked"
          /\ tile_placements' = tile_placements
          /\ mla' = mla
     ELSE \E sorted \in sort_unstable(tile_placements) :
            /\ tile_placements' = sorted
            /\ mla' = FinalizedArchive(sorted)
            /\ writer_state' = "finalized"
  /\ UNCHANGED <<script, color_tuple_to_id, reader_state, meta, current_tile_chunk_id,
                 current_tile_chunk_data, read_tiles, last_next, caller_vars, engine_vars, render_vars>>

\* the container loses the entry of the chunk the script names
LoseChunk ==
  /\ reader_state = "closed"
  /\ mla.finalized
  /\ script.lost_chunk \in DOMAIN mla.tiles
  /\ mla' = [mla EXCEPT !.tiles = [id \in DOMAIN mla.tiles \ {script.lost_chunk} |->
                                     mla.tiles[id]]]
  /\ UNCHANGED <<script, color_tuple_to_id, tile_placements, writer_state, reader_state,
                 meta, current_tile_chunk_id, current_tile_chunk_data, read_tiles,
                 last_next, caller_vars, engine_vars, render_vars>>

\* the blob of the last chunk as the script's damage leaves it: without its
\* final byte, or with the color_index of its last record (the fifth byte of
\* the record) set to the first index the palette does not hold
DamagedBlob(blob) ==
  IF script.damage = "truncated" THEN SubSeq(blob, 1, Len(blob) - 1)
  ELSE [blob EXCEPT ![Len(blob) - encoded_size + 5] =
          Cardinality(DOMAIN mla.meta.color_id_to_tuple)]

\* the container is damaged as the script says
DamageContainer ==
  /\ reader_state = "closed"
  /\ mla.finalized
  /\ script.damage # "none"
  /\ ~mla.damaged
  /\ mla' = [mla EXCEPT !.damaged = TRUE,
                        !.tiles[Len(mla.meta.chunk_descs) - 1] = DamagedBlob(@)]
  /\ UNCHANGED <<script, color_tuple_to_id, tile_placements, writer_state, reader_state,
                 meta, current_tile_chunk_id, current_tile_chunk_data, read_tiles,
                 last_next, caller_vars, engine_vars, render_vars>>

\* whether the container is as the script leaves it for the reader
ContainerSettled ==
  /\ script.lost_chunk \notin DOMAIN mla.tiles
  /\ script.damage = "none" \/ mla.damaged

\* PlacedArchiveReader::new on the finished container
ReaderNew ==
  /\ reader_state = "closed"
  /\ WriterDone
  /\ mla.finalized /\ mla.has_meta
  /\ ContainerSettled
  /\ reader_state' = "open"
  /\ meta' = mla.meta
  /\ current_tile_chunk_id' = NoChunk
  /\ current_tile_chunk_data' = NoData
  /\ UNCHANGED <<script, color_tuple_to_id, tile_placements, writer_state, mla,
                 read_tiles, last_next, caller_vars, engine_vars, render_vars>>

\* whether the caller makes one more call after its last seek
MayCallAfterSeek == reader_use = "seek" /\ calls < MaxCallsNearSeek

\* whether the caller may seek now
MaySeek == num_seeks < MaxSeeks /\ calls <= MaxCallsNearSeek

\* one more next() or read call
CountCall == calls' = IF calls <= MaxCallsNearSeek THEN calls + 1 ELSE calls

\* the state the reader's cursor is left in
SetCursor(rc) ==
  /\ current_tile_chunk_id' = rc.id
  /\ current_tile_chunk_data' = rc.data

\* the DecodedTilePlacement next() makes of a stored record
DecodedOf(tile) ==
  [x |-> tile.x, y |-> tile.y, ms_since_epoch |-> tile.ms_since_epoch,
   color |-> meta.color_id_to_tuple[tile.color_index]]

\* a next() that yields the transparent colour for an index the palette lacks
NextOutcome_Substitutes(got) ==
  /\ SetCursor(got.rc)
  /\ IF ~got.ok
     THEN /\ last_next' = "None"
          /\ UNCHANGED <<read_tiles, reader_state>>
     ELSE /\ last_next' = "Some"
          /\ read_tiles' = Append(read_tiles,
               [x |-> got.tile.x, y |-> got.tile.y,
                ms_since_epoch |-> got.tile.ms_since_epoch,
                color |-> IF got.tile.color_index \in DOMAIN meta.color_id_to_tuple
                          THEN meta.color_id_to_tuple[got.tile.color_index]
                          ELSE <<0, 0, 0, 0>>])
          /\ UNCHANGED reader_state

\* Iterator::next, once decode_from_std_read gave got
NextOutcome(got) ==
  /\ SetCursor(got.rc)
  /\ IF ~got.ok
     THEN /\ last_next' = "None"
          /\ UNCHANGED <<read_tiles, reader_state>>
     ELSE IF got.tile.color_index \notin DOMAIN meta.color_id_to_tuple
     THEN /\ reader_state' = "panicked"
          /\ UNCHANGED <<read_tiles, last_next>>
     ELSE /\ last_next' = "Some"
          /\ read_tiles' = Append(read_tiles, DecodedOf(got.tile))
          /\ UNCHANGED reader_state

\* Iterator::next of the reader
ReaderNext ==
  /\ reader_state = "open"
  /\ reader_use \in {"none", "iterate"} \/ MayCallAfterSeek
  /\ reader_use' = IF reader_use = "none" THEN "iterate" ELSE reader_use
  /\ CountCall
  /\ NextOutcome(decode_from_std_read(ReaderCursor))
  /\ UNCHANGED <<script, color_tuple_to_id, tile_placements, writer_state, mla, meta,
                 read_bytes, last_read, last_seek, num_seeks, reads_at_end, engine_vars, render_vars>>

\* what the caller keeps of a read call that gave got
ReadOutcome(got) ==
  /\ SetCursor(got.rc)
  /\ read_bytes' = read_bytes \o got.bytes
  /\ last_read' = [n |-> Len(got.bytes), chunk_error |-> got.chunk_error]
  /\ reads_at_end' = IF got.bytes = <<>> THEN reads_at_end + 1 ELSE reads_at_end

\* one call of Read::read with a buffer of ReadSize bytes
ReaderRead ==
  /\ reader_state = "open"
  /\ reader_use \in {"none", "read"}
  /\ reads_at_end < MaxReadsAtEnd
  /\ ReadOutcome(read(ReaderCursor, ReadSize))
  /\ reader_use' = "read"
  /\ CountCall
  /\ UNCHANGED <<writer_vars, reader_state, meta, read_tiles, last_next, last_seek,
                 num_seeks, engine_vars, render_vars>>

\* Read::read_to_end by a caller that has sought
ReaderReadToEnd ==
  /\ reader_state = "open"
  /\ MayCallAfterSeek
  /\ last_read = NoRead
  /\ ReadOutcome(read_to_end(ReaderCursor))
  /\ CountCall
  /\ UNCHANGED <<writer_vars, reader_state, meta, read_tiles, last_next, reader_use,
                 last_seek, num_seeks, engine_vars, render_vars>>

\* what a seek() call that gave res leaves
AfterSeek(op, arg, res) ==
  /\ SetCursor(res.rc)
  /\ last_seek' = [op |-> op, arg |-> arg, ok |-> res.ok, value |-> res.value]
  /\ num_seeks' = num_seeks + 1
  /\ reader_use' = "seek"
  /\ calls' = 0
  /\ read_tiles' = <<>>
  /\ read_bytes' = <<>>
  /\ last_next' = "none"
  /\ last_read' = NoRead
  /\ reads_at_end' = 0

\* Seek::seek(SeekFrom::Start(pos))
SeekStart(pos) ==
  /\ reader_state = "open"
  /\ MaySeek
  /\ AfterSeek("Start", pos, seek_start(ReaderCursor, pos))
  /\ UNCHANGED <<writer_vars, reader_state, meta, engine_vars, render_vars>>

\* Seek::seek(SeekFrom::Current(d)): current_tile_chunk_id.unwrap() panics
\* when the reader holds no chunk
SeekCurrent(d) ==
  /\ reader_state = "open"
  /\ MaySeek
  /\ IF current_tile_chunk_id = NoChunk
     THEN /\ reader_state' = "panicked"
          /\ AfterSeek("Current", d, [ok |-> FALSE, value |-> 0, rc |-> ReaderCursor])
     ELSE /\ AfterSeek("Current", d,
                       seek_start(ReaderCursor, CurrentTarget(ReaderCursor, d)))
          /\ UNCHANGED reader_state
  /\ UNCHANGED <<writer_vars, meta, engine_vars, render_vars>>

ArchiveNext ==
  \/ AddTile
  \/ AddTileLate
  \/ finalize
  \/ LoseChunk
  \/ DamageContainer
  \/ ReaderNew
  \/ ReaderNext
  \/ ReaderRead
  \/ ReaderReadToEnd
  \/ \E pos \in StartTargets : SeekStart(pos)
  \/ \E delta \in CurrentDeltas : SeekCurrent(delta)

\* ------------------------------------------------- PlacedArchive: actions
\* the pixel data of an archive file: PixelPlacements sorted by time, up to
\* MaxPixels of them, each at the start or at the end of a whole second
PixelTimes == {sec * MsPerSecond + part : sec \in 0..MaxSeconds, part \in {0, MsPerSecond - 1}}

SortedPixelTimes(n) ==
  {m \in [1..n -> PixelTimes] : \A i \in 1..(n - 1) : m[i] <= m[i + 1]}

PixelStreams ==
  UNION {{StreamOf(LayoutX(layout, n), mss) : layout \in {"same", "alternate"},
                                              mss \in SortedPixelTimes(n)} :
          n \in 0..MaxPixels}

\* the seconds render_up_to is called with
RenderTargets == 0..MaxSeconds

\* PlacedArchive.colors: the colour of each colour index
colors == [color_index \in 0..(NumColors - 1) |-> <<color_index, color_index, color_index>>]

\* canvas.fill(0xff)
FilledCanvas == [c \in Coords |-> <<255, 255, 255>>]

NoCanvas == [canvas |-> <<>>, rendered_up_to_seconds |-> 0, rendered_up_to_offset |-> 0,
             some |-> FALSE]

\* PlacedArchive::load
RenderInitOver(streams) ==
  /\ pixels \in streams
  /\ last_rendered_canvas = NoCanvas
  /\ rendered = <<>>
  /\ render_seconds = 0
  /\ render_resumed = FALSE
  /\ num_renders = 0

\* the while-let loop of render_up_to from the record at offset on: a record
\* is decoded, and so passed, before its time is looked at; offsets count the
\* records from the start of the pixel data
RECURSIVE scan_pixels(_, _, _)
scan_pixels(canvas, offset, seconds) ==
  IF offset >= Len(pixels)
  THEN [canvas |-> canvas, offset |-> Len(pixels)]
  ELSE LET pixel == pixels[offset + 1]
       IN  IF (pixel.ms_since_epoch \div MsPerSecond) > seconds /\ seconds # 0
           THEN [canvas |-> canvas, offset |-> offset + 1]
           ELSE scan_pixels([canvas EXCEPT ![<<pixel.x, pixel.y>>] = colors[pixel.color_index]],
                            offset + 1, seconds)

\* PlacedArchive::render_up_to
RenderUpTo(seconds) ==
  /\ num_renders < MaxRenders
  /\ LET canvas == IF last_rendered_canvas.some THEN last_rendered_canvas.canvas
                   ELSE FilledCanvas
         resumes == /\ last_rendered_canvas.some
                    /\ last_rendered_canvas.rendered_up_to_seconds < seconds
         start == IF resumes THEN last_rendered_canvas.rendered_up_to_offset ELSE 0
         scanned == scan_pixels(canvas, start, seconds)
     IN  /\ last_rendered_canvas' = [canvas |-> scanned.canvas,
                                     rendered_up_to_seconds |-> seconds,
                                     rendered_up_to_offset |-> scanned.offset,
                                     some |-> TRUE]
         /\ rendered' = scanned.canvas
         /\ render_resumed' = resumes
  /\ render_seconds' = seconds
  /\ num_renders' = num_renders + 1
  /\ UNCHANGED <<pixels, engine_vars, archive_vars>>

RenderNext == \E seconds \in RenderTargets : RenderUpTo(seconds)

\* ============================================================ specifications
vars == <<engine_vars, archive_vars, render_vars>>

\* the engine over a stream, with no archive being written or read
Init ==
  /\ data \in Streams
  /\ EngineInitOver({data})
  /\ script = [times |-> "same", colors |-> 1, count |-> 0, lost_chunk |-> NoChunk,
               damage |-> "none"]
  /\ ArchiveInitOver({script})
  /\ pixels = <<>>
  /\ RenderInitOver({pixels})

Spec == Init /\ [][EngineNext]_vars

\* the writer and the reader, with the engine at rest
InitArchive ==
  /\ script \in Scripts
  /\ ArchiveInitOver({script})
  /\ data = <<>>
  /\ EngineInitOver({data})
  /\ pixels = <<>>
  /\ RenderInitOver({pixels})

SpecArchive == InitArchive /\ [][ArchiveNext]_vars

\* the engine followed command by command through its first update()
InitStep ==
  /\ data \in StepStreams
  /\ EngineInitOver({data})
  /\ script = [times |-> "same", colors |-> 1, count |-> 0, lost_chunk |-> NoChunk,
               damage |-> "none"]
  /\ ArchiveInitOver({script})
  /\ pixels = <<>>
  /\ RenderInitOver({pixels})

SpecStep == InitStep /\ [][StepNext]_vars

\* a PlacedArchive loaded from a file and asked for images, with the engine,
\* the writer and the reader at rest
InitRender ==
  /\ pixels \in PixelStreams
  /\ RenderInitOver({pixels})
  /\ data = <<>>
  /\ EngineInitOver({data})
  /\ script = [times |-> "same", colors |-> 1, count |-> 0, lost_chunk |-> NoChunk,
               damage |-> "none"]
  /\ ArchiveInitOver({script})

SpecRender == InitRender /\ [][RenderNext]_vars

\* ------------------------------------------------- engine: reference values
\* last-write-wins replay of the stream up to time t, in stream order
Replay(t) ==
  [c \in Coords |->
     LET at == {i \in 1..Len(data) : <<data[i].x, data[i].y>> = c
                                      /\ data[i].ms_since_epoch <= t}
     IN  IF at = {} THEN Unset ELSE color_id_to_tuple(data[MaxOf(at)].color_index)]

FreshTexture == [c \in Coords |-> Unset]

\* the loop of update() run to its return, from reader position pos
RECURSIVE update_run(_, _, _, _)
update_run(pos, tex, target, d) ==
  LET r == partial_update(pos, tex, target, d)
  IN  IF r.kind = "ReachedEndOfInput" \/ r.did_update_up_to_requested_ms
      THEN r
      ELSE update_run(r.pos, r.texture, target, d)

\* update() has returned (and it was called at least once)
Returned == pc = "idle" /\ history # "none"

\* the records of the slice the next partial_update pulls
NextSlice == LET chunk == write_next_input_chunk(reader_pos, duration)
             IN  SubSeq(chunk.input, 1, chunk.bytes_written \div encoded_size)

\* ------------------------------------------------------------------ claims

\* C1: when the first update(T, hint) on a fresh engine returns UpdatedUpToMs
\* with did_update_up_to_requested_ms, every coordinate holds the colour of the
\* last record at it with timestamp <= T, and the unset texel if there is none.
C1_SatisfiedMeansReplayed ==
  (Returned /\ history = "first" /\ result.kind = "UpdatedUpToMs"
     /\ result.did_update_up_to_requested_ms)
  => texture = Replay(up_to_ms)

\* C2: no record is skipped: the reader is never past a record of the stream
\* that has not been applied to the texture.
C2_NoRecordSkipped ==
  \A i \in 1..Len(data) : i \notin applied => reader_pos <= (i - 1) * encoded_size

\* C3: the first update(T, hint) on a fresh engine leaves the texture that one
\* update(T, LargeHint), whose single slice covers the whole stream, leaves.
C3_ChunkingAgrees ==
  (Returned /\ history = "first")
  => /\ write_next_input_chunk(0, LargeHint).bytes_written = Len(data) * encoded_size
     /\ texture = update_run(0, FreshTexture, up_to_ms, LargeHint).texture

\* C4: after update() calls with non-decreasing targets the texture is the one
\* a fresh engine has after a single update() to the last target.
C4_IncrementalAgreesWithFresh ==
  (Returned /\ history \in {"first", "monotone"})
  => texture = update_run(0, FreshTexture, up_to_ms, duration).texture

\* C5: if a record with timestamp >= T was unread when update(T, hint) was
\* called, it returns UpdatedUpToMs with did_update_up_to_requested_ms and with
\* max_ms_since_epoch_used the greatest timestamp <= T of the stream.
C5_ReportsGreatestUsed ==
  (Returned /\ \E i \in 1..Len(data) : /\ (i - 1) * encoded_size >= call_start_pos
                                       /\ data[i].ms_since_epoch >= up_to_ms)
  => /\ result.kind = "UpdatedUpToMs"
     /\ result.did_update_up_to_requested_ms
     /\ result.max_ms_since_epoch_used
          = MaxOf({data[i].ms_since_epoch : i \in {j \in 1..Len(data) :
                                                     data[j].ms_since_epoch <= up_to_ms}})

\* C6: a partial_update whose slice holds only records with timestamp > T
\* changes no texel and leaves the reader where it was before the step.
C6_FutureSliceFullyRewinds ==
  [][(pc = "update" /\ NextSlice # <<>>
        /\ \A i \in 1..Len(NextSlice) : NextSlice[i].ms_since_epoch > up_to_ms)
     => (texture' = texture /\ reader_pos' = reader_pos)]_vars

\* C7: once update() has returned ReachedEndOfInput, every later update()
\* returns ReachedEndOfInput, changes no texel and never moves the reader back.
C7_ExhaustionIsTerminal ==
  [][reached_end
     => /\ texture' = texture
        /\ reader_pos' >= reader_pos
        /\ (pc = "update" => (pc' = "idle" /\ result'.kind = "ReachedEndOfInput"))]_vars

C7_Witness ==
  /\ reached_end /\ Returned /\ history # "first"
  /\ result.kind = "ReachedEndOfInput"
  /\ Len(data) > 0 /\ texture # FreshTexture

\* C8: when T is greater than every timestamp of the stream, update(T, hint)
\* returns ReachedEndOfInput and the texture is the last-write-wins replay of
\* the whole stream.
C8_PastTheEndReplaysAll ==
  (Returned /\ \A i \in 1..Len(data) : data[i].ms_since_epoch < up_to_ms)
  => /\ result.kind = "ReachedEndOfInput"
     /\ texture = Replay(up_to_ms)

ExpectedRecord(i, earliest) ==
  LET t == ScriptTile(script, i)
  IN  [x |-> t.x, y |-> t.y, color |-> t.color,
       ms_since_epoch |-> signed_duration_since(t.placed_at, earliest)]

\* a placement the reader yielded, its u32 time written as a duration
YieldedRecord(tile) == [tile EXCEPT !.ms_since_epoch = [era |-> 0, ms |-> @]]

\* how often a value occurs in a sequence
Occurrences(seq, v) == Cardinality({i \in 1..Len(seq) : seq[i] = v})

\* the reader yielded the added placements, each once, in time order
RoundTripHolds ==
  LET N == Len(tile_placements)
      earliest == ScriptTime(script, CHOOSE j \in 1..N :
                    \A k \in 1..N : ~Before(ScriptTime(script, k), ScriptTime(script, j)))
      expected == [i \in 1..N |-> ExpectedRecord(i, earliest)]
      yielded == [i \in 1..Len(read_tiles) |-> YieldedRecord(read_tiles[i])]
  IN  /\ Len(read_tiles) = N
      /\ \A i \in 1..(N - 1) : read_tiles[i].ms_since_epoch <= read_tiles[i + 1].ms_since_epoch
      /\ \A i \in 1..N : Occurrences(yielded, expected[i]) = Occurrences(expected, expected[i])

\* the reader has iterated to the end
IteratedToEnd == reader_state = "open" /\ reader_use = "iterate" /\ last_next = "None"

\* C10: writing N >= 1 placements with add_tile, calling finalize and iterating a
\* reader opened on the result yields exactly the N placements, in
\* non-decreasing time order, with their x, y and colour and with times
\* relative to the earliest placement: finalize completes, the reader does
\* not fail, and once it has iterated to the end it has yielded them all.
C10_RoundTrip ==
  Len(tile_placements) >= 1 =>
    /\ writer_state # "panicked"
    /\ reader_state # "panicked"
    /\ IteratedToEnd => RoundTripHolds

\* ------------------------------------------------- archive: seeking
\* a reader as PlacedArchiveReader::new leaves it
FreshCursor == [id |-> NoChunk, data |-> NoData]

\* the outcome of the m-th of m consecutive decode_from_std_read calls from rc
RECURSIVE decode_many(_, _)

DecodeManyAfter(first, m) == IF ~first.ok THEN first ELSE decode_many(first.rc, m)

decode_many(rc, m) ==
  IF m = 1 THEN decode_from_std_read(rc)
  ELSE DecodeManyAfter(decode_many(rc, m \div 2), m - (m \div 2))

\* the k-th item (from 0) of a full sequential iteration of a fresh reader
SequentialItem(k) == DecodedOf(decode_many(FreshCursor, k + 1).tile)

\* the container holds every chunk its Meta lists
ContainerWhole == script.lost_chunk = NoChunk /\ script.damage = "none"

\* the caller's last seek was seek(Start(k * encoded_size)) for a record
\* index k of the archive, and it has made one call since
SoughtToRecord ==
  /\ last_seek.op = "Start"
  /\ last_seek.arg % encoded_size = 0
  /\ last_seek.arg \div encoded_size \in 0..(Len(tile_placements) - 1)
  /\ calls = 1

\* C11: on a container that holds all its chunks, from any prior reader
\* state, seek(Start(k * RECORD_SIZE)) for a record index k (0 <= k < total)
\* followed by decoding one record with next() yields the k-th item of a
\* full sequential iteration, also when k is the first record of a chunk
\* other than chunk 0.
C11_SeekThenDecode ==
  (ContainerWhole /\ SoughtToRecord /\ last_read = NoRead) =>
    /\ last_seek.ok
    /\ reader_state = "open"
    /\ last_next = "Some"
    /\ read_tiles = <<SequentialItem(last_seek.arg \div encoded_size)>>

\* a second seek, to the first record of chunk 1, then one record decoded
C11_Witness ==
  /\ ContainerWhole /\ SoughtToRecord /\ last_read = NoRead
  /\ num_seeks = MaxSeeks
  /\ last_seek.arg = TilesBefore(1) * encoded_size
  /\ last_next = "Some"

\* ------------------------------------------------- archive: byte stream
\* the blobs of chunks lo..hi of the container, one after another
RECURSIVE ConcatChunks(_, _)
ConcatChunks(lo, hi) ==
  IF lo > hi THEN <<>>
  ELSE IF lo = hi THEN mla.tiles[lo]
  ELSE ConcatChunks(lo, (lo + hi) \div 2) \o ConcatChunks(((lo + hi) \div 2) + 1, hi)

\* the logical stream: every chunk the Meta lists, in id order
AllBytes == ConcatChunks(0, Len(meta.chunk_descs) - 1)

\* the bytes of a sequence from offset p (from 0) onward
From(bytes, p) == SubSeq(bytes, p + 1, Len(bytes))

\* the caller's last seek was seek(Start(p)) for an offset p of the stream,
\* and it has read to the end since
SoughtThenReadToEnd ==
  /\ last_seek.op = "Start"
  /\ last_seek.arg \in 0..(Len(tile_placements) * encoded_size)
  /\ calls = 1
  /\ last_read # NoRead

\* C12: the reader is byte-addressable: on a container that holds all its
\* chunks, seek(Start(p)) for any offset 0 <= p <= total * RECORD_SIZE, also
\* one that is no multiple of RECORD_SIZE or lies inside the first record of
\* a chunk, succeeds, and reading to the end of the stream then returns
\* exactly the bytes from offset p onward of all chunk blobs in id order.
C12_ByteAddressable ==
  (ContainerWhole /\ SoughtThenReadToEnd) =>
    /\ last_seek.ok
    /\ read_bytes = From(AllBytes, last_seek.arg)

\* the bytes the reader has consumed from the start of the logical stream
ConsumedBytes ==
  IF current_tile_chunk_id = NoChunk THEN 0
  ELSE TilesBefore(current_tile_chunk_id) * encoded_size
       + (IF current_tile_chunk_data.some THEN current_tile_chunk_data.position ELSE 0)

\* a step that is a seek(Current(d)) call whose target lies in the stream
IsSeekCurrent ==
  /\ reader_state = "open"
  /\ num_seeks' = num_seeks + 1
  /\ last_seek'.op = "Current"
  /\ ConsumedBytes + last_seek'.arg \in 0..(Len(tile_placements) * encoded_size)

\* C13: in every reader state, also that of a freshly opened reader that has
\* neither read nor sought, seek(Current(d)) moves to the absolute offset
\* (bytes of consumed chunks + position in the current chunk + d) and
\* returns it, and seek(Current(0)) does not change what the next read
\* returns.
C13_SeekCurrent ==
  [][IsSeekCurrent =>
       /\ reader_state' = "open"
       /\ last_seek'.ok
       /\ last_seek'.value = ConsumedBytes + last_seek'.arg
       /\ last_seek'.arg = 0 =>
            read([id |-> current_tile_chunk_id', data |-> current_tile_chunk_data'],
                 ReadSize).bytes = read(ReaderCursor, ReadSize).bytes]_vars

\* ------------------------------------------------- archive: sequential read
IsPrefix(a, b) == Len(a) <= Len(b) /\ a = SubSeq(b, 1, Len(a))

\* the caller has only read since it opened the reader
ReadSequentially == reader_state = "open" /\ reader_use = "read" /\ num_seeks = 0

\* C14: reading a freshly opened reader sequentially, with no seek, on a
\* container that holds all its chunks returns the bytes of chunks 0..n-1 in
\* id order, each once: what was read so far is the start of the stream, a
\* read returns bytes as long as some are left, after the last byte read
\* returns 0 bytes, and every later read returns 0 bytes too.
C14_SequentialRead ==
  (ContainerWhole /\ ReadSequentially) =>
    /\ IsPrefix(read_bytes, AllBytes)
    /\ last_read.n = 0 <=> reads_at_end >= 1
    /\ reads_at_end >= 1 => read_bytes = AllBytes

\* two reads that returned no bytes after more than NUM_CHUNKS chunks were read
C14_Witness ==
  /\ ContainerWhole /\ ReadSequentially
  /\ Len(meta.chunk_descs) > NUM_CHUNKS
  /\ reads_at_end = MaxReadsAtEnd
  /\ read_bytes = AllBytes

\* C15: a read that needs the next chunk while the container lacks that
\* chunk's entry (an id below the chunk count that cannot be fetched) fails
\* with an error: no read returns Ok(0), the end-of-stream answer, after
\* get_next_chunk_data reported a missing chunk entry.
C15_MissingChunkIsError ==
  ~(last_read.chunk_error = "MissingChunkFile" /\ last_read.n = 0)

\* ------------------------------------------------- archive: the writer's output
\* the placements as add_tile stored them, in the order of the calls
AddedPlacements ==
  [i \in 1..script.count |->
     [x |-> ScriptTile(script, i).x, y |-> ScriptTile(script, i).y,
      placed_at |-> ScriptTile(script, i).placed_at,
      color_index |-> color_tuple_to_id[ScriptTile(script, i).color]]]

\* finalize has just returned Ok
JustFinalized == WriterDone /\ reader_state = "closed"

\* C16: finalize orders the placements with a stable sort by timestamp:
\* placements with the same timestamp stay in the order add_tile was called
\* for them.
C16_StableOrder ==
  JustFinalized => tile_placements = StableSort(AddedPlacements)

\* the number of records of each chunk finalize described in the Meta
ChunkSizes == [g \in 1..Len(mla.meta.chunk_descs) |-> mla.meta.chunk_descs[g].num_tiles]

\* C17: finalize partitions the sorted placements into NUM_CHUNKS consecutive
\* chunks of exactly chunk_size = floor(total / NUM_CHUNKS) records; the final
\* chunk absorbs the remainder and holds chunk_size + (total mod NUM_CHUNKS)
\* records, and no chunk holds fewer than chunk_size records.
C17_FinalChunkAbsorbsRemainder ==
  JustFinalized =>
    LET total == Len(tile_placements)
        chunk_size == total \div NUM_CHUNKS
    IN  /\ Len(ChunkSizes) = NUM_CHUNKS
        /\ \A g \in 1..(Len(ChunkSizes) - 1) : ChunkSizes[g] = chunk_size
        /\ ChunkSizes[Len(ChunkSizes)] = chunk_size + (total % NUM_CHUNKS)
        /\ \A g \in 1..Len(ChunkSizes) : ChunkSizes[g] >= chunk_size

\* the caller has added every placement of its script and called finalize
FinalizeCalled == writer_state # "open"

\* C18: finalize succeeds for every writer that holds at least one placement,
\* also fewer than NUM_CHUNKS, and the archive it produces reads back exactly
\* the placements that were added.
C18_FinalizeSucceeds ==
  (Len(tile_placements) >= 1 /\ FinalizeCalled) =>
    /\ writer_state = "finalized"
    /\ mla.finalized /\ mla.has_meta
    /\ (ContainerWhole /\ IteratedToEnd) => RoundTripHolds

\* C19: finalize on a writer with zero placements fails with the EmptyArchive
\* error, returned as an error value, before any container entry is written:
\* the call does not panic and leaves the container without entries.
C19_EmptyArchiveError ==
  (Len(tile_placements) = 0 /\ FinalizeCalled) =>
    /\ writer_state = "failed"
    /\ mla = EmptyMla

\* ------------------------------------------------- archive: the palette
\* the number of distinct colours among the first n placements of the script
DistinctSeen(n) == Min(n, script.colors)

\* C20: after any sequence of add_tile calls the palette is a bijection in
\* first-seen order: the k-th distinct colour seen (from 0) has index k and
\* no two colours share an index, also when more than 256 distinct colours
\* were added.
C20_PaletteBijection ==
  writer_state = "open" =>
    /\ DOMAIN color_tuple_to_id =
         {ColorNumber(k) : k \in 0..(DistinctSeen(Len(tile_placements)) - 1)}
    /\ \A k \in 0..(DistinctSeen(Len(tile_placements)) - 1) :
         color_tuple_to_id[ColorNumber(k)] = k
    /\ \A a, b \in DOMAIN color_tuple_to_id :
         color_tuple_to_id[a] = color_tuple_to_id[b] => a = b

\* the color_index bytes of the records of a chunk blob (the fifth byte of
\* each record)
StoredColorIndexes(blob) ==
  {blob[k * encoded_size + 5] : k \in 0..((Len(blob) \div encoded_size) - 1)}

\* C21: in every archive the writer produces, each color_index stored in a
\* record is a key of the Meta's palette, and the palette maps the index
\* add_tile gave a colour back to that colour.
C21_PaletteCoversRecords ==
  JustFinalized =>
    /\ \A id \in DOMAIN mla.tiles :
         StoredColorIndexes(mla.tiles[id]) \subseteq DOMAIN mla.meta.color_id_to_tuple
    /\ \A color \in DOMAIN color_tuple_to_id :
         mla.meta.color_id_to_tuple[color_tuple_to_id[color]] = color

\* ------------------------------------------------- engine: one slice
\* the positions in the next slice of the qualifying records at coordinate c
QualifyingAt(c) ==
  {i \in 1..Len(NextSlice) : /\ Qualifies(NextSlice[i], up_to_ms)
                             /\ <<NextSlice[i].x, NextSlice[i].y>> = c}

NextChunk == write_next_input_chunk(reader_pos, duration)
NextNumOfTiles == NextChunk.bytes_written \div encoded_size

\* C23: the sentinel records that pad a slice to a multiple of
\* NUM_OF_TILES_PER_WORKGROUP records always fit in the slice buffer, never
\* change a canvas cell (cell (0,0), which they carry, included), never
\* contribute to max_ms_since_epoch_seen, max_ms_since_epoch_used or
\* max_index_in_chunk_used, and are not counted in the record count the
\* rewind uses: the step acts as on the slice without them, and the reader
\* is never moved back before the start of the slice.
C23_PaddingIsInert ==
  [][(pc = "update" /\ NextNumOfTiles > 0) =>
       /\ Len(NextChunk.input) * encoded_size <= NextChunk.copy_size
       /\ Len(NextChunk.input) % NUM_OF_TILES_PER_WORKGROUP = 0
       /\ \A i \in (NextNumOfTiles + 1)..Len(NextChunk.input) :
            NextChunk.input[i] = PaddingRecord
       /\ calculate_final_tiles(NextChunk.input, up_to_ms)
            = calculate_final_tiles(NextSlice, up_to_ms)
       /\ texture' = update_texture(texture, NextSlice,
                       calculate_final_tiles(NextSlice, up_to_ms).last_index_for_tile)
       /\ reader_pos' >= reader_pos
       /\ reader_pos' <= reader_pos + NextNumOfTiles * encoded_size]_vars

\* a padded slice of two records whose only qualifying record is at another
\* cell than (0,0): cell (0,0) is still unset
C23_Witness ==
  /\ Returned /\ history = "first"
  /\ Len(data) = 2 /\ applied = {1}
  /\ data[1].x # 0
  /\ texture[<<0, 0>>] = Unset
  /\ texture[<<data[1].x, 0>>] # Unset

\* the coordinate of the i-th record of the stream
CoordOf(i) == <<data[i].x, data[i].y>>

\* C24: a step changes only canvas cells whose coordinate appears in a
\* qualifying record of the current slice; every other cell keeps the value
\* it had before the step, and a cell no applied record addresses keeps the
\* unset texel.
C24_OtherCellsUntouched ==
  [][pc = "update" =>
       /\ \A c \in Coords : QualifyingAt(c) = {} => texture'[c] = texture[c]
       /\ \A c \in Coords :
            (\A i \in applied' : CoordOf(i) # c) => texture'[c] = Unset]_vars

\* a first update() in slices of NUM_OF_TILES_PER_WORKGROUP records that
\* applied the whole stream: a cell written by the first slice and not
\* addressed by the later records still holds its colour
C24_Witness ==
  /\ Returned /\ history = "first" /\ duration = 0
  /\ Len(data) > NUM_OF_TILES_PER_WORKGROUP
  /\ applied = 1..Len(data)
  /\ \E c \in Coords :
       /\ texture[c] # Unset
       /\ \A i \in (NUM_OF_TILES_PER_WORKGROUP + 1)..Len(data) : CoordOf(i) # c

\* ------------------------------------------------- engine: the rewind
\* max_index_in_chunk_used of the next step
NextMaxIndexUsed == calculate_final_tiles(NextChunk.input, up_to_ms).max_index_in_chunk_used

\* the next step applies a record, but not the last one of its slice
StopsInsideSlice ==
  /\ pc = "update"
  /\ \E i \in 1..Len(NextSlice) : Qualifies(NextSlice[i], up_to_ms)
  /\ NextMaxIndexUsed < NextNumOfTiles - 1

\* C25: when max_index_in_chunk_used < num_of_tiles - 1, the step seeks the
\* reader backward by exactly (num_of_tiles - 1 - max_index_in_chunk_used)
\* records, so that the next slice starts at the record right after the last
\* applied one and no applied record is read again by a later slice.
C25_RewindsToAfterLastApplied ==
  [][StopsInsideSlice =>
       reader_pos' = reader_pos + (NextMaxIndexUsed + 1) * encoded_size]_vars

\* ------------------------------------------------- engine: order within a step
\* C26: within a step, pass 2 (update_texture) of a slice starts only after
\* pass 1 (calculate_final_tiles) has completed over the whole slice, the
\* scratch map is cleared only after pass 2, and the pull of the next slice
\* starts only after the bounds of the slice before were read back and its
\* rewind, if any, was performed.
C26_StepOrdering ==
  [][/\ (progress.pass2 \subseteq progress'.pass2 /\ progress'.pass2 # progress.pass2)
          => progress.pass1 = 1..Len(input_buffer)
     /\ (progress'.cleared /\ ~progress.cleared) => progress.pass2 = Coords
     /\ (pc = "update" /\ step_pc = "pull" /\ reader_pos' > reader_pos)
          => (gpu_queue = <<>> /\ progress.read_back)]_vars

\* pass 2 of a second slice under way, after the bounds of the first slice
\* were read back
C26_Witness ==
  /\ pc = "update" /\ step_pc = "submitted"
  /\ applied # {}
  /\ Running("update_texture")
  /\ progress.pass1 = 1..Len(input_buffer)
  /\ progress.pass2 # {}

\* ------------------------------------------------ engine: the size of a slice
\* the estimated byte count of a step: rate * hint_ms records of encoded_size
EstimatedBytes == get_estimated_num_of_tiles_for_duration(duration) * encoded_size

\* the number of bytes the step in progress asks of the reader
RequestedBytes == write_next_input_chunk(reader_pos, duration).copy_size

\* C27: the number of bytes a step requests is a multiple of the alignment
\* factor, is never more than the capacity, and is the estimated byte count
\* itself when that estimate is already a multiple of the alignment factor and
\* below the capacity
C27_RequestIsEstimateRoundedUp ==
  pc = "update" =>
    /\ RequestedBytes % get_alignment_factor = 0
    /\ RequestedBytes <= get_max_input_size(device)
    /\ (EstimatedBytes % get_alignment_factor = 0
          /\ EstimatedBytes < get_max_input_size(device))
         => RequestedBytes = EstimatedBytes

\* ------------------------------------------- engine: the hint and the outcome
\* what the update() that has just returned would have returned had it been
\* called with the duration hint d (the outcome does not depend on the
\* texture, which is passed along only to be written)
OutcomeWithHint(d) == Outcome(update_run(call_start_pos, FreshTexture, up_to_ms, d))

\* C28: the outcome update() returns (ReachedEndOfInput or UpdatedUpToMs, its
\* max_ms_since_epoch_used and did_update_up_to_requested_ms) is the same for
\* every duration hint, the stream, the reader position at the call and the
\* target being the same
C28_OutcomeIndependentOfHint ==
  Returned => \A d \in Hints : OutcomeWithHint(d) = result

\* --------------------------------------------- engine: an earlier target
\* the last update() returned UpdatedUpToMs with did_update_up_to_requested_ms
ReturnedSatisfied ==
  /\ Returned
  /\ result.kind = "UpdatedUpToMs"
  /\ result.did_update_up_to_requested_ms

\* the texture when the update() just called has returned
TextureAtReturn == update_run(reader_pos', texture', up_to_ms', duration').texture

\* C29: after an update(T1) that returned satisfied, an update(T2, hint) with
\* T2 <= T1 changes no texel; and no step ever turns a texel that holds a
\* colour back into the unset texel
C29_EarlierTargetChangesNothing ==
  [][/\ (ReturnedSatisfied /\ pc' = "update" /\ up_to_ms' <= up_to_ms)
          => TextureAtReturn = texture
     /\ \A c \in Coords : texture[c] # Unset => texture'[c] # Unset]_vars

\* --------------------------------------- archive: the palette and padding
\* the resolution pass takes a record of colour index ci whose time has come
TakenInReplay(ci) == Qualifies([color_index |-> ci, ms_since_epoch |-> 0], 0)

\* C30: the writer gives no colour the palette index PADDING_COLOR_INDEX, so
\* no record of a written archive is skipped as a padding record in replay,
\* however many distinct colours were added
C30_NoColourGetsPaddingIndex ==
  /\ \A color \in DOMAIN color_tuple_to_id :
       color_tuple_to_id[color] # PADDING_COLOR_INDEX
  /\ JustFinalized =>
       \A id \in DOMAIN mla.tiles :
         \A ci \in StoredColorIndexes(mla.tiles[id]) : TakenInReplay(ci)

\* --------------------------------------------- archive: stored timestamps
\* the ms_since_epoch fields of the records of a blob (bytes 6..9 of each)
StoredTimestamps(blob) ==
  [k \in 1..(Len(blob) \div encoded_size) |->
     DecodeLE(SubSeq(blob, (k - 1) * encoded_size + 6, k * encoded_size))]

\* the earliest time among the placements the caller added
EarliestPlacedAt ==
  ScriptTime(script, CHOOSE j \in 1..script.count :
    \A k \in 1..script.count : ~Before(ScriptTime(script, k), ScriptTime(script, j)))

\* C31: every stored timestamp is the placement's time minus the earliest
\* placement time of the whole archive, in milliseconds, unaltered by the
\* conversion to 32 bits: in every chunk, not only in the first, and 0 for
\* the first record of chunk 0
C31_TimestampsRelativeToFirst ==
  (JustFinalized /\ ContainerWhole) =>
    LET stored == StoredTimestamps(ConcatChunks(0, Len(mla.meta.chunk_descs) - 1))
    IN  /\ Len(stored) = Len(tile_placements)
        /\ stored[1] = 0
        /\ \A i \in 1..Len(stored) :
             [era |-> 0, ms |-> stored[i]]
               = signed_duration_since(tile_placements[i].placed_at, EarliestPlacedAt)

\* ------------------------------------------------ archive: the Meta's totals
\* the sum of the first n entries of a sequence of numbers
RECURSIVE SumOf(_, _)
SumOf(seq, n) == IF n = 0 THEN 0 ELSE SumOf(seq, n - 1) + seq[n]

\* the fields of the Meta finalize wrote
MetaFields == DOMAIN mla.meta

\* C32: the Meta finalize writes has total_tile_placements equal to the number
\* of placements added and to the sum of the chunks' num_tiles, and
\* last_tile_placed_at_ms_since_epoch equal to the largest stored timestamp
C32_MetaTotals ==
  (JustFinalized /\ ContainerWhole) =>
    LET stored == StoredTimestamps(ConcatChunks(0, Len(mla.meta.chunk_descs) - 1))
    IN  /\ SumOf(ChunkSizes, Len(ChunkSizes)) = script.count
        /\ "total_tile_placements" \in MetaFields
        /\ mla.meta.total_tile_placements = script.count
        /\ "last_tile_placed_at_ms_since_epoch" \in MetaFields
        /\ mla.meta.last_tile_placed_at_ms_since_epoch
             = MaxOf({stored[i] : i \in 1..Len(stored)})

\* ------------------------------------------ archive: the chunk descriptions
\* the timestamp of the final record of the chunk stored under tiles/<id>
FinalTimestamp(id) ==
  StoredTimestamps(mla.tiles[id])[Len(mla.tiles[id]) \div encoded_size]

\* C33: after finalize the chunk descriptions agree with the stored blobs:
\* ids 0 .. n-1 in list order, chunk id stored under tiles/<id>, num_tiles the
\* number of records of that blob and at least 1, the num_tiles summing to
\* the number of placements added, and up_to_ms_since_epoch the timestamp of
\* the chunk's final record, non-decreasing in id
C33_ChunkDescsMatchBlobs ==
  (JustFinalized /\ ContainerWhole) =>
    LET descs == mla.meta.chunk_descs
        n == Len(descs)
    IN  /\ \A g \in 1..n : descs[g].id = g - 1
        /\ DOMAIN mla.tiles = 0..(n - 1)
        /\ \A g \in 1..n :
             /\ Len(mla.tiles[g - 1]) = descs[g].num_tiles * encoded_size
             /\ descs[g].num_tiles >= 1
             /\ descs[g].up_to_ms_since_epoch = FinalTimestamp(g - 1)
        /\ SumOf(ChunkSizes, n) = script.count
        /\ \A g \in 1..(n - 1) :
             descs[g].up_to_ms_since_epoch <= descs[g + 1].up_to_ms_since_epoch

\* ------------------------------------------- archive: damaged containers
\* the reader iterates over a stream whose byte length is no multiple of
\* encoded_size
IteratesTruncated ==
  /\ reader_state = "open" /\ reader_use = "iterate"
  /\ script.damage = "truncated"
  /\ Len(ConcatChunks(0, Len(meta.chunk_descs) - 1)) % encoded_size # 0

\* C34: iterating over a stream whose byte length is no multiple of
\* encoded_size, next() never returns None, the answer that ends an iteration
\* at the end of the stream: the truncated trailing record is an error
C34_TruncatedRecordIsError ==
  IteratesTruncated => last_next # "None"

\* the record the next call of next() decodes names a palette index the
\* Meta does not hold
NextIsUnknownColor ==
  LET got == decode_from_std_read(ReaderCursor)
  IN  got.ok /\ got.tile.color_index \notin DOMAIN meta.color_id_to_tuple

\* the colours of the Meta's palette
PaletteColors == {meta.color_id_to_tuple[id] : id \in DOMAIN meta.color_id_to_tuple}

\* C35: iteration never yields a placement with a substituted colour: a call
\* of next() that decodes a record whose color_index is no key of the Meta's
\* palette panics, and yields nothing; every placement yielded has a colour
\* of the palette
C35_UnknownColorFailsLoudly ==
  [][(reader_state = "open" /\ reader_use = "iterate" /\ reader_use' = "iterate")
       => /\ NextIsUnknownColor
               => (reader_state' = "panicked" /\ read_tiles' = read_tiles)
          /\ \A i \in 1..Len(read_tiles') : read_tiles'[i].color \in PaletteColors]_vars

\* the reader panicked at the last record, whose index the palette lacks,
\* after it had yielded every record before it
C35_Witness ==
  /\ script.damage = "unknown_color"
  /\ reader_use = "iterate"
  /\ reader_state = "panicked"
  /\ Len(read_tiles) = script.count - 1

\* ------------------------------------------------- archive: failed seeks
\* the step is a seek that returned an error
SeekFails == num_seeks' = num_seeks + 1 /\ ~last_seek'.ok /\ reader_state' = "open"

\* C36: a seek that fails (a target beyond the last chunk, a negative
\* absolute offset, a chunk that cannot be loaded) leaves the loaded chunk
\* id, the buffered chunk and its cursor as they were, so that the next
\* read gives what it would have given without the seek
C36_FailedSeekChangesNothing ==
  [][SeekFails
       => /\ current_tile_chunk_id' = current_tile_chunk_id
          /\ current_tile_chunk_data' = current_tile_chunk_data
          /\ read(ReaderCursor', ReadSize) = read(ReaderCursor, ReadSize)]_vars

\* a seek to a negative offset has failed on a reader that holds a chunk it
\* has read from
C36_Witness ==
  /\ reader_state = "open"
  /\ last_seek.op = "Current" /\ ~last_seek.ok /\ calls = 0
  /\ last_seek.arg < 0
  /\ current_tile_chunk_id # NoChunk
  /\ current_tile_chunk_data.some /\ current_tile_chunk_data.position > 0

\* ------------------------------------------- archive: the reader's cursor
\* C37: while the reader is in use, whenever a chunk is loaded its id is below
\* the number of chunks, the buffered bytes are those of that chunk, and the
\* cursor lies between 0 and the chunk's byte length, so that the absolute
\* position is at most the byte length of the whole stream
C37_CursorWithinChunk ==
  (reader_state = "open" /\ current_tile_chunk_id # NoChunk) =>
    /\ current_tile_chunk_id < Len(meta.chunk_descs)
    /\ current_tile_chunk_id \in DOMAIN mla.tiles
    /\ current_tile_chunk_data.some
    /\ current_tile_chunk_data.buf = mla.tiles[current_tile_chunk_id]
    /\ current_tile_chunk_data.position \in 0..Len(current_tile_chunk_data.buf)
    /\ TilesBefore(current_tile_chunk_id) * encoded_size + current_tile_chunk_data.position
         <= TilesBefore(Len(meta.chunk_descs)) * encoded_size

\* ------------------------------------------------- archive: after finalize
\* C38: the writer is single-use: once finalize has run, no add_tile is
\* accepted (the buffered placements and the palette stay as finalize left
\* them) and the container stays finalized
C38_WriterIsSingleUse ==
  [][writer_state = "finalized"
       => /\ tile_placements' = tile_placements
          /\ color_tuple_to_id' = color_tuple_to_id
          /\ mla'.finalized]_vars

\* ------------------------------------------------- PlacedArchive: claims
\* the image of exactly the placements whose time in whole seconds is
\* <= seconds (all of them when seconds is 0), on a filled canvas
RECURSIVE ImageOf(_, _)
ImageOf(n, seconds) ==
  IF n = 0 THEN FilledCanvas
  ELSE LET pixel == pixels[n]
           below == ImageOf(n - 1, seconds)
       IN  IF seconds = 0 \/ (pixel.ms_since_epoch \div MsPerSecond) <= seconds
           THEN [below EXCEPT ![<<pixel.x, pixel.y>>] = colors[pixel.color_index]]
           ELSE below

\* C39: render_up_to(seconds) returns the image of exactly the placements
\* whose time in whole seconds is <= seconds (all placements when seconds is
\* 0), whatever calls were made before on the same object: a call that
\* resumes from the cached canvas and offset returns what a first call with
\* the same argument returns, and the placement that ended the earlier
\* call's scan is not lost
C39_RenderMatchesPlacements ==
  num_renders > 0 => rendered = ImageOf(Len(pixels), render_seconds)

====
